---- MODULE Spec2Model ----
(***************************************************************************)
(* Model of the TTML localisation core: the Gemini engine with its         *)
(* bisection / single-line fallback, the Cloud Translation engine with its *)
(* chunking and blank filtering, and translate_ttml's extract / rewrite.   *)
(*                                                                         *)
(* A Python str is a sequence of one-character strings; None is the        *)
(* one-element sequence None below, which no str equals.                   *)
(***************************************************************************)
EXTENDS Integers, Sequences, FiniteSets, TLC

VARIABLES
    lines,      \* the list handed to translate_lines
    gStack,     \* GeminiTranslator: activation records of translate_chunk, innermost first
    gOut,       \* GeminiTranslator: the list translate_lines returned
    gLog,       \* history of the requests sent to the Gemini model
    gLast,      \* the answer of the Gemini model to the last request
    gPc,        \* "off" | "called" | "running" | "returned"
    backend,    \* "any": every response is possible; "marked": the stub failing on line markIdx
    markIdx,    \* 0-based index of the marked line of the "marked" stub
    projectSet, \* CloudTranslateEngine: whether PROJECT_ID (or a fallback of it) is set
    cChunks,    \* CloudTranslateEngine: chunks, the result of _chunk_by_chars
    cIdx,       \* CloudTranslateEngine: 1-based position of the for loop in chunks
    cOut,       \* CloudTranslateEngine: out
    cLog,       \* history of the translate_text requests
    cPc,        \* "off" | "called" | "running" | "returned" | "config_error" | "backend_error"
    kItems,     \* _chunk_by_chars: items
    kMaxChars,  \* _chunk_by_chars: max_chars
    kMaxItems,  \* _chunk_by_chars: max_items
    kChunks,    \* _chunk_by_chars: the returned list of chunks
    kPc,        \* "off" | "called" | "returned"
    doc0,       \* translate_ttml: the tree of the file at input_path
    doc,        \* translate_ttml: tree, parsed from the file and rewritten in place
    lineNodes,  \* translate_ttml: line_nodes
    texts,      \* translate_ttml: texts
    translated, \* what a stub translate_fn answered
    tCount,     \* translate_ttml: total_lines
    tCalls,     \* translate_ttml: the arguments of the calls of translate_fn so far
    tFn,        \* translate_fn: "stub" | "gemini" | "cloud"
    tPc,        \* "off" | "called" | "translating" | "returned" | "raised"
    oKind,      \* the orchestrator: "main" (main.py) | "batch" (batch_translate.py)
    oProject,   \* whether PROJECT_ID is set in the environment
    oBucket,    \* whether BUCKET_NAME is set in the environment
    oInput,     \* whether the input file (main) or directory (batch) exists
    oFiles,     \* the paths the file loop goes through: TRUE for a regular file
    oLangs,     \* len(langs); the languages are 1..oLangs
    oAt,        \* the (path, language) pair the loops are at
    oEvents,    \* history of the translate_ttml, write_ttml and upload_file calls
    oTrees,     \* the output files by language: the tree written and, as history, the
                \* answer of translate_fn in that run
    oPc         \* "off" | "start" | "engine" | "bucket" | "loop" | "done" | "exit" | "crashed"

gVars == <<gStack, gOut, gLog, gLast, gPc, backend, markIdx>>

cVars == <<projectSet, cChunks, cIdx, cOut, cLog, cPc>>

kVars == <<kItems, kMaxChars, kMaxItems, kChunks, kPc>>

tVars == <<doc0, doc, lineNodes, texts, translated, tCount, tCalls, tFn, tPc>>

oVars == <<oKind, oProject, oBucket, oInput, oFiles, oLangs, oAt, oEvents, oTrees, oPc>>

vars == <<lines, gVars, cVars, kVars, tVars, oVars>>

\* ------------------------------------------------------------------ bounds

MaxLines == 3
BisectLen == 16
\* the limits translate_lines passes to _chunk_by_chars (80000 characters and
\* 256 items in the source), scaled down so that both limits cut chunks
CloudMaxChars == 4
CloudMaxItems == 3
MaxCloudLines == 4
\* the inputs of _chunk_by_chars taken on its own
\* the documents translate_ttml is run on with a stub translate_fn: at most
\* MaxElems elements, the <p> elements and their children together
MaxElems == 4
\* the documents translate_ttml is run on with an engine: one <p> with at most
\* MaxPipeKids children
MaxPipeKids == 2

\* most paths in the folder of a batch run, and most target languages
MaxFiles == 2
MaxLangs == 2

\* most children of the one <p> of the file the language loop is run on
MaxLangKids == 1

\* most lines of a list handed to both engines
MaxBothLines == 1
MaxChunkInput == 5
MaxCharsArg == 6
MaxItemsArg == 3

\* ------------------------------------------------------------------ strings

None == <<"<None>">>

SP == " "

\* x or ""
OrEmpty(x) == IF x = None \/ x = <<>> THEN <<>> ELSE x

RECURSIVE LStrip(_)
LStrip(s) == IF s # <<>> /\ Head(s) = SP THEN LStrip(Tail(s)) ELSE s

RECURSIVE RStrip(_)
RStrip(s) == IF s # <<>> /\ s[Len(s)] = SP THEN RStrip(SubSeq(s, 1, Len(s) - 1)) ELSE s

\* str.strip()
Strip(s) == RStrip(LStrip(s))

\* (s or "").strip() == ""
IsBlank(s) == Strip(OrEmpty(s)) = <<>>

\* the sequences over S of length lo..hi
SeqsOf(S, lo, hi) == UNION {[1..n -> S] : n \in lo..hi}

\* ------------------------------------------------------------------ inputs

LineVals == {<<>>, <<SP>>, <<"a">>}

\* what one element of a JSON array answered by the model can be
BatchElems == {None, <<"T">>}

\* what resp.text of a single-line answer can be
FallbackTexts == {None, <<"T">>, <<SP, "T", SP>>}

UpperChar(c) == CASE c = "a" -> "A" [] c = "b" -> "B" [] c = "c" -> "C"
                  [] c = "d" -> "D" [] OTHER -> c

\* the stub's stand-in for a translation: the line uppercased
Upper(s) == [i \in 1..Len(s) |-> UpperChar(s[i])]

Digit(k) == CASE k = 0 -> "a" [] k = 1 -> "b" [] k = 2 -> "c" [] OTHER -> "d"

\* line i of the stub scenario: pairwise distinct, none blank
MarkedLine(i) == <<"x", Digit((i \div 16) % 4), Digit((i \div 4) % 4), Digit(i % 4)>>

\* ------------------------------------------------------------------ GeminiTranslator

\* activation record of translate_chunk(chunk); lo is the index of chunk[0] in lines
Frame(chunk, lo) == [chunk |-> chunk, lo |-> lo, pc |-> "try", left |-> <<>>]

\* str(x) if x is not None else ""
Coerce(x) == IF x = None THEN <<>> ELSE x

\* [str(x) if x is not None else "" for x in arr]
AcceptBatch(arr) == [i \in 1..Len(arr) |-> Coerce(arr[i])]

\* a response of the model: the request raised, or it answered JSON that is no
\* array, or it answered the JSON array list
Raised == [kind |-> "raise", list |-> <<>>]
NonList == [kind |-> "nonlist", list |-> <<>>]
ListOf(arr) == [kind |-> "list", list |-> arr]

\* a plain-text answer: the request raised, or resp.text is text
TextRaised == [kind |-> "raise", text |-> None]
TextOf(t) == [kind |-> "text", text |-> t]

\* isinstance(arr, list) and len(arr) == len(chunk)
ValidBatch(resp, chunk) ==
    /\ resp.kind = "list"
    /\ Len(resp.list) = Len(chunk)

MidZero(chunk) == 0

MidCeil(chunk) == (Len(chunk) + 1) \div 2

\* mid = len(chunk) // 2
Mid(chunk) == Len(chunk) \div 2

LeftHalfShort(chunk) == SubSeq(chunk, 1, Mid(chunk) - 1)

\* chunk[:mid]
LeftHalf(chunk) == SubSeq(chunk, 1, Mid(chunk))

\* chunk[mid:]
RightHalf(chunk) == SubSeq(chunk, Mid(chunk) + 1, Len(chunk))

JoinDropsRight(left, right) == left

JoinSwapped(left, right) == right \o left

\* left + right
JoinHalves(left, right) == left \o right

FallbackLineNoStrip(ln, resp) == IF resp.kind = "raise" THEN ln ELSE OrEmpty(resp.text)

\* (resp.text or "").strip() on success, ln when the request raised
FallbackLine(ln, resp) == IF resp.kind = "raise" THEN ln ELSE Strip(OrEmpty(resp.text))

\* translate_chunk returns val to its caller: a caller waiting for its left half
\* goes on with its right half, a caller waiting for its right half returns
\* left + right to its own caller, and the outermost return ends translate_lines.
RECURSIVE Deliver(_, _)
Deliver(stk, val) ==
    IF stk = <<>> THEN [stack |-> <<>>, out |-> val, done |-> TRUE]
    ELSE LET f == Head(stk) IN
         IF f.pc = "left"
         THEN [stack |-> <<Frame(RightHalf(f.chunk), f.lo + Mid(f.chunk)),
                           [f EXCEPT !.pc = "right", !.left = val]>> \o Tail(stk),
               out |-> <<>>, done |-> FALSE]
         ELSE Deliver(Tail(stk), JoinHalves(f.left, val))

\* the responses the backend can give to a batch request for chunk starting at lo
BatchResponses(chunk, lo) ==
    IF backend = "marked"
    THEN IF markIdx \in lo..(lo + Len(chunk) - 1)
         THEN {Raised}
         ELSE {ListOf([i \in 1..Len(chunk) |-> Upper(chunk[i])])}
    ELSE {Raised, NonList}
         \cup {ListOf(a) : a \in SeqsOf(BatchElems, Len(chunk), Len(chunk))}
         \cup {ListOf([i \in 1..n |-> <<"T">>]) : n \in {Len(chunk) - 1, Len(chunk) + 1}}

FallbackResponses == {TextRaised} \cup {TextOf(t) : t \in FallbackTexts}

GeminiTranslateLinesNoEmptyTest ==
    /\ gPc = "called"
    /\ gPc' = "running"
    /\ gOut' = <<>>
    /\ gStack' = <<Frame(lines, 0)>>
    /\ UNCHANGED <<lines, gLog, gLast, backend, markIdx, cVars, kVars, oVars, tVars>>

\* translate_lines(lines, target_language): the call, up to the first request
GeminiTranslateLines ==
    /\ gPc = "called"
    /\ IF lines = <<>>
       THEN /\ gPc' = "returned"
            /\ gOut' = <<>>
            /\ gStack' = <<>>
       ELSE /\ gPc' = "running"
            /\ gOut' = <<>>
            /\ gStack' = <<Frame(lines, 0)>>
    /\ UNCHANGED <<lines, gLog, gLast, backend, markIdx, cVars, kVars, oVars, tVars>>

\* translate_chunk(chunk): one generate_content request for the chunk, and what
\* follows from its response up to the next request
GeminiBatchRequest ==
    /\ gPc = "running"
    /\ gStack # <<>>
    /\ Head(gStack).pc = "try"
    /\ LET f == Head(gStack) IN
       \E resp \in BatchResponses(f.chunk, f.lo) :
          /\ gLast' = resp
          /\ IF ValidBatch(resp, f.chunk)
             THEN LET d == Deliver(Tail(gStack), AcceptBatch(resp.list)) IN
                  /\ gLog' = Append(gLog, [kind |-> "batch", lo |-> f.lo, payload |-> f.chunk,
                                           ok |-> TRUE, resp |-> resp.list])
                  /\ gStack' = d.stack
                  /\ gOut' = d.out
                  /\ gPc' = IF d.done THEN "returned" ELSE "running"
             ELSE /\ gLog' = Append(gLog, [kind |-> "batch", lo |-> f.lo, payload |-> f.chunk,
                                           ok |-> FALSE, resp |-> <<>>])
                  /\ gStack' = IF Len(f.chunk) = 1
                               THEN <<[f EXCEPT !.pc = "fallback"]>> \o Tail(gStack)
                               ELSE <<Frame(LeftHalf(f.chunk), f.lo),
                                      [f EXCEPT !.pc = "left"]>> \o Tail(gStack)
                  /\ UNCHANGED <<gOut, gPc>>
    /\ UNCHANGED <<lines, backend, markIdx, cVars, kVars, oVars, tVars>>

\* _fallback_per_line(chunk, target_language) for a chunk of one line: one
\* plain-text request, and the return of its result up to the next request
GeminiFallbackRequest ==
    /\ gPc = "running"
    /\ gStack # <<>>
    /\ Head(gStack).pc = "fallback"
    /\ LET f == Head(gStack)
           ln == f.chunk[1]
       IN \E resp \in FallbackResponses :
          LET d == Deliver(Tail(gStack), <<FallbackLine(ln, resp)>>) IN
          /\ gLog' = Append(gLog, [kind |-> "single", lo |-> f.lo, payload |-> <<ln>>,
                                   ok |-> resp.kind # "raise",
                                   resp |-> IF resp.kind = "raise" THEN <<>> ELSE <<resp.text>>])
          /\ gLast' = [kind |-> resp.kind,
                        list |-> IF resp.kind = "raise" THEN <<>> ELSE <<resp.text>>]
          /\ gStack' = d.stack
          /\ gOut' = d.out
          /\ gPc' = IF d.done THEN "returned" ELSE "running"
    /\ UNCHANGED <<lines, backend, markIdx, cVars, kVars, oVars, tVars>>

\* no request has been answered yet
NoResponse == [kind |-> "none", list |-> <<>>]

\* the parts of the state a specification does not use
GeminiOff ==
    /\ gStack = <<>> /\ gOut = <<>> /\ gLog = <<>> /\ gLast = NoResponse /\ gPc = "off"
    /\ backend = "any" /\ markIdx = 0

CloudOff ==
    /\ projectSet = TRUE /\ cChunks = <<>> /\ cIdx = 0 /\ cOut = <<>> /\ cLog = <<>>
    /\ cPc = "off"

ChunkOff ==
    /\ kItems = <<>> /\ kMaxChars = 0 /\ kMaxItems = 0 /\ kChunks = <<>> /\ kPc = "off"

OrchOff ==
    /\ oKind = "main" /\ oProject = TRUE /\ oBucket = TRUE /\ oInput = TRUE
    /\ oFiles = <<>> /\ oLangs = 0 /\ oAt = [file |-> 0, lang |-> 0]
    /\ oEvents = <<>> /\ oTrees = <<>> /\ oPc = "off"

TtmlOff ==
    /\ doc0 = <<>> /\ doc = <<>> /\ lineNodes = <<>> /\ texts = <<>>
    /\ translated = [kind |-> "pending", list |-> <<>>]
    /\ tCount = 0 /\ tCalls = <<>> /\ tFn = "stub" /\ tPc = "off"

InitGemini ==
    /\ lines \in SeqsOf(LineVals, 0, MaxLines)
    /\ gStack = <<>>
    /\ gOut = <<>>
    /\ gLog = <<>>
    /\ gLast = NoResponse
    /\ gPc = "called"
    /\ backend = "any"
    /\ markIdx = 0
    /\ CloudOff
    /\ ChunkOff
    /\ OrchOff
    /\ TtmlOff

NextGemini ==
    \/ GeminiTranslateLines
    \/ GeminiBatchRequest
    \/ GeminiFallbackRequest

SpecGemini == InitGemini /\ [][NextGemini]_vars

\* the stub of the bisection scenario: lines are distinct, one of them is marked
InitBisect ==
    /\ \E n \in 1..BisectLen : lines = [i \in 1..n |-> MarkedLine(i - 1)]
    /\ markIdx \in 0..(Len(lines) - 1)
    /\ gStack = <<>>
    /\ gOut = <<>>
    /\ gLog = <<>>
    /\ gLast = NoResponse
    /\ gPc = "called"
    /\ backend = "marked"
    /\ CloudOff
    /\ ChunkOff
    /\ OrchOff
    /\ TtmlOff

SpecBisect == InitBisect /\ [][NextGemini]_vars

\* ------------------------------------------------------------------ GeminiTranslator: properties

GLogIdx == 1..Len(gLog)

Returned == gPc = "returned"

\* output i (1-based) is element i - lo of an accepted response to a batch
\* request whose payload is lines[lo+1 .. lo+n], a slice containing i
FromBatch(i) ==
    \E k \in GLogIdx :
       LET e == gLog[k] IN
       /\ e.kind = "batch" /\ e.ok
       /\ e.lo < i /\ i <= e.lo + Len(e.payload)
       /\ e.payload = SubSeq(lines, e.lo + 1, e.lo + Len(e.payload))
       /\ gOut[i] = Coerce(e.resp[i - e.lo])

\* output i is the trimmed answer to a single-line request made for line i
FromFallback(i) ==
    \E k \in GLogIdx :
       LET e == gLog[k] IN
       /\ e.kind = "single" /\ e.ok
       /\ e.lo = i - 1 /\ e.payload = <<lines[i]>>
       /\ gOut[i] = Strip(OrEmpty(e.resp[1]))

\* output i is line i itself, after the single-line request for line i raised
FromOriginal(i) ==
    \E k \in GLogIdx :
       LET e == gLog[k] IN
       /\ e.kind = "single" /\ ~e.ok
       /\ e.lo = i - 1
       /\ gOut[i] = lines[i]

\* C1: translate_lines returns exactly N strings for N input lines, whatever
\* the batch requests (raise, non-list, wrong length, success) and the
\* single-line requests (raise, success) did.
C1_LengthPreserved == Returned => Len(gOut) = Len(lines)

C1_Witness ==
    /\ Returned
    /\ Len(lines) = 3
    /\ \E k \in GLogIdx : gLog[k].kind = "batch" /\ ~gLog[k].ok /\ Len(gLog[k].payload) = 2
    /\ \E k \in GLogIdx : gLog[k].kind = "batch" /\ gLog[k].ok
    /\ \E k \in GLogIdx : gLog[k].kind = "single" /\ ~gLog[k].ok
    /\ \E k \in GLogIdx : gLog[k].kind = "single" /\ gLog[k].ok

\* C2: every output element comes from its own input index: from the accepted
\* response of a contiguous batch containing it, at its offset in that batch,
\* or from the single-line request for that line, or it is the original line.
C2_IndexAligned ==
    Returned =>
       /\ Len(gOut) = Len(lines)
       /\ \A i \in 1..Len(lines) : FromBatch(i) \/ FromFallback(i) \/ FromOriginal(i)

C2_Witness ==
    /\ Returned
    /\ Len(lines) = 3
    /\ FromBatch(1) /\ ~FromFallback(1) /\ ~FromOriginal(1)
    /\ FromFallback(2) /\ ~FromBatch(2)
    /\ FromOriginal(3) /\ ~FromBatch(3)
    /\ gOut[1] # gOut[2] /\ gOut[2] # gOut[3] /\ gOut[1] # gOut[3]

\* C6: a blank (empty or whitespace-only) line is never part of the payload
\* of a batch or single-line request, and is returned unchanged.
C6_BlankNeverSent ==
    /\ \A k \in GLogIdx : \A j \in 1..Len(gLog[k].payload) : ~IsBlank(gLog[k].payload[j])
    /\ Returned => \A i \in 1..Len(lines) :
                      IsBlank(lines[i]) => i <= Len(gOut) /\ gOut[i] = lines[i]

\* C7: a line whose one-element batch failed gets the original line when its
\* single-line request raised and the trimmed response text when it
\* succeeded, and the run still returns a result for every line.
C7_FallbackResult ==
    Returned =>
       /\ Len(gOut) = Len(lines)
       /\ \A k \in GLogIdx :
             LET e == gLog[k] IN
             e.kind = "single" =>
                /\ \E j \in 1..(k - 1) :
                      /\ gLog[j].kind = "batch" /\ ~gLog[j].ok
                      /\ gLog[j].lo = e.lo /\ Len(gLog[j].payload) = 1
                /\ gOut[e.lo + 1] = IF e.ok THEN Strip(OrEmpty(e.resp[1]))
                                            ELSE lines[e.lo + 1]

C7_Witness ==
    /\ Returned
    /\ Len(lines) = 3
    /\ \E k \in GLogIdx : /\ gLog[k].kind = "single" /\ ~gLog[k].ok /\ gLog[k].lo = 0
                          /\ gOut[1] = lines[1] /\ lines[1] = <<"a">>
    /\ \E k \in GLogIdx : /\ gLog[k].kind = "single" /\ gLog[k].ok /\ gLog[k].lo = 1
                          /\ gLog[k].resp = <<(<<SP, "T", SP>>)>> /\ gOut[2] = <<"T">>
    /\ \E k \in GLogIdx : gLog[k].kind = "batch" /\ gLog[k].ok /\ gLog[k].lo = 2

SingleRequests == {k \in GLogIdx : gLog[k].kind = "single"}

\* C8: with the stub failing exactly the batches that contain the marked
\* line, every other line is the batch translation (uppercase) of the line
\* at its index and the marked line is the only one sent as a single-line
\* request; in particular for 16 lines with the mark at index 7.
C8_BisectionIsolatesMarked ==
    (backend = "marked" /\ Returned) =>
       /\ Len(gOut) = Len(lines)
       /\ \A i \in 1..Len(lines) :
             i # markIdx + 1 => gOut[i] = Upper(lines[i]) /\ FromBatch(i)
       /\ Cardinality(SingleRequests) = 1
       /\ \A k \in SingleRequests : gLog[k].lo = markIdx /\ gLog[k].payload = <<lines[markIdx + 1]>>
       /\ FromFallback(markIdx + 1) \/ FromOriginal(markIdx + 1)

C8_Witness ==
    /\ backend = "marked" /\ Returned
    /\ Len(lines) = 16 /\ markIdx = 7
    /\ Len(gOut) = 16
    /\ Cardinality(SingleRequests) = 1
    /\ gOut[7] = Upper(lines[7]) /\ gOut[9] = Upper(lines[9])

\* the slice of lines the request e is for
SliceLo(e) == e.lo + 1
SliceHi(e) == e.lo + Len(e.payload)

\* the request e is for lines within a..b only
Within(e, a, b) == a <= SliceLo(e) /\ SliceHi(e) <= b

\* the request e is for no line of a..b
Outside(e, a, b) == SliceHi(e) < a \/ b < SliceLo(e)

\* the last request was a batch request and the list it got has the length of the batch
LastIsSameLengthList ==
    gLast.kind = "list" /\ Len(gLast.list) = Len(gLog[Len(gLog)].payload)

\* C17: a batch response is accepted iff it is a list of the length of the
\* batch, its nulls become "" and no later request is for a line of it; a
\* failed batch of n > 1 lines is followed by a batch request for its first
\* n div 2 lines, every request for the left half comes before every request
\* for the right half, whose first request is for the whole rest, and a
\* single-line request is made only for a batch of one line, right after it
\* failed.
C17_AcceptOrBisect ==
    /\ (gLog # <<>> /\ gLog[Len(gLog)].kind = "batch") =>
          /\ gLog[Len(gLog)].ok <=> LastIsSameLengthList
          /\ gLog[Len(gLog)].ok => gLog[Len(gLog)].resp = gLast.list
    /\ \A k \in GLogIdx :
          LET e == gLog[k]
              n == Len(e.payload)
              h == n \div 2
          IN /\ e.payload = SubSeq(lines, SliceLo(e), SliceHi(e))
             /\ (e.kind = "batch" /\ e.ok) =>
                   /\ \A j \in (k + 1)..Len(gLog) : Outside(gLog[j], SliceLo(e), SliceHi(e))
                   /\ Returned => \A i \in 1..n : gOut[e.lo + i] = Coerce(e.resp[i])
             /\ (e.kind = "batch" /\ ~e.ok /\ n > 1) =>
                   /\ k < Len(gLog) =>
                         /\ gLog[k + 1].kind = "batch"
                         /\ gLog[k + 1].lo = e.lo /\ Len(gLog[k + 1].payload) = h
                   /\ \A j \in (k + 1)..Len(gLog) :
                         \/ Outside(gLog[j], SliceLo(e), SliceHi(e))
                         \/ Within(gLog[j], SliceLo(e), e.lo + h)
                         \/ /\ Within(gLog[j], e.lo + h + 1, SliceHi(e))
                            /\ \A i \in (j + 1)..Len(gLog) : Outside(gLog[i], SliceLo(e), e.lo + h)
                            /\ \E i \in (k + 1)..j :
                                  /\ gLog[i].kind = "batch"
                                  /\ gLog[i].lo = e.lo + h /\ Len(gLog[i].payload) = n - h
                                  /\ \A m \in (k + 1)..(i - 1) : Within(gLog[m], SliceLo(e), e.lo + h)
                   /\ Returned => \E j \in (k + 1)..Len(gLog) :
                                     gLog[j].lo = e.lo + h /\ Len(gLog[j].payload) = n - h
             /\ (e.kind = "batch" /\ ~e.ok /\ n = 1 /\ k < Len(gLog)) =>
                   gLog[k + 1].kind = "single" /\ gLog[k + 1].lo = e.lo
             /\ e.kind = "single" =>
                   /\ k > 1 /\ n = 1
                   /\ gLog[k - 1].kind = "batch" /\ ~gLog[k - 1].ok
                   /\ gLog[k - 1].lo = e.lo /\ Len(gLog[k - 1].payload) = 1
    /\ Returned => Len(gOut) = Len(lines)

C17_Witness ==
    /\ Returned
    /\ Len(lines) = 3
    /\ Len(gLog) = 6
    /\ gLog[1].kind = "batch" /\ ~gLog[1].ok /\ Len(gLog[1].payload) = 3
    /\ gLog[2].kind = "batch" /\ gLog[2].ok /\ gLog[2].lo = 0 /\ gLog[2].resp = <<None>>
    /\ gLog[3].kind = "batch" /\ ~gLog[3].ok /\ gLog[3].lo = 1 /\ Len(gLog[3].payload) = 2
    /\ gLog[4].kind = "batch" /\ ~gLog[4].ok /\ gLog[4].lo = 1 /\ Len(gLog[4].payload) = 1
    /\ gLog[5].kind = "single" /\ gLog[5].lo = 1
    /\ gLog[6].kind = "batch" /\ gLog[6].ok /\ gLog[6].lo = 2
    /\ gLast = ListOf(<<(<<"T">>)>>)
    /\ gOut[1] = <<>> /\ gOut[3] = <<"T">>

\* the number of the requests of the given kind so far
Requests(kind) == Cardinality({k \in GLogIdx : gLog[k].kind = kind})

\* translate_lines has been called and has not returned
GeminiBusy == gPc \in {"called", "running"}

\* C18: translate_lines always terminates: whatever the backend does, a run
\* on N >= 1 lines makes at most 2N - 1 batch requests and at most N
\* single-line requests, at most one per line; until it returns it can always
\* take a step, and every step after the call is one more request.
C18_TerminatesWithinBounds ==
    /\ [](/\ lines # <<>> =>
             /\ Requests("batch") <= 2 * Len(lines) - 1
             /\ Requests("single") <= Len(lines)
             /\ \A j \in GLogIdx : \A k \in GLogIdx :
                   (j # k /\ gLog[j].kind = "single" /\ gLog[k].kind = "single")
                      => gLog[j].lo # gLog[k].lo
          /\ GeminiBusy => ENABLED NextGemini)
    /\ [][gPc = "running" => Len(gLog') = Len(gLog) + 1]_vars

C18_Witness ==
    /\ Returned
    /\ Len(lines) = 3
    /\ Requests("batch") = 5
    /\ Requests("single") = 3

\* ------------------------------------------------------------------ _chunk_by_chars

ShouldCloseLate(cur, curLen, itLen, maxChars, maxItems) ==
    cur # <<>> /\ (curLen + itLen > maxChars \/ Len(cur) > maxItems)

\* cur and (cur_len + it_len > max_chars or len(cur) >= max_items)
ShouldClose(cur, curLen, itLen, maxChars, maxItems) ==
    cur # <<>> /\ (curLen + itLen > maxChars \/ Len(cur) >= maxItems)

\* the for loop of _chunk_by_chars over the remaining items, and the final append
RECURSIVE ChunkLoop(_, _, _, _, _, _)
ChunkLoop(items, maxChars, maxItems, chunks, cur, curLen) ==
    IF items = <<>>
    THEN IF cur # <<>> THEN Append(chunks, cur) ELSE chunks
    ELSE LET it == Head(items)
             itLen == Len(OrEmpty(it))
             close == ShouldClose(cur, curLen, itLen, maxChars, maxItems)
         IN ChunkLoop(Tail(items), maxChars, maxItems,
                      IF close THEN Append(chunks, cur) ELSE chunks,
                      Append(IF close THEN <<>> ELSE cur, OrEmpty(it)),
                      (IF close THEN 0 ELSE curLen) + itLen)

\* _chunk_by_chars(items, max_chars, max_items)
ChunkByChars(items, maxChars, maxItems) ==
    ChunkLoop(items, maxChars, maxItems, <<>>, <<>>, 0)

ChunkItemVals == {<<>>, <<"a">>, <<"a", "b">>}

\* one call of _chunk_by_chars
ChunkCall ==
    /\ kPc = "called"
    /\ kChunks' = ChunkByChars(kItems, kMaxChars, kMaxItems)
    /\ kPc' = "returned"
    /\ UNCHANGED <<lines, gVars, cVars, tVars, oVars, kItems, kMaxChars, kMaxItems>>

InitChunk ==
    /\ kItems \in SeqsOf(ChunkItemVals, 0, MaxChunkInput)
    /\ kMaxChars \in 0..MaxCharsArg
    /\ kMaxItems \in 1..MaxItemsArg
    /\ kChunks = <<>>
    /\ kPc = "called"
    /\ lines = <<>>
    /\ GeminiOff
    /\ CloudOff
    /\ TtmlOff
    /\ OrchOff

NextChunk == ChunkCall

SpecChunk == InitChunk /\ [][NextChunk]_vars

\* ------------------------------------------------------------------ _chunk_by_chars: properties

RECURSIVE Flatten(_)
Flatten(ss) == IF ss = <<>> THEN <<>> ELSE Head(ss) \o Flatten(Tail(ss))

RECURSIVE Chars(_)
Chars(chunk) == IF chunk = <<>> THEN 0 ELSE Len(Head(chunk)) + Chars(Tail(chunk))

\* C9: the chunks are non-empty, their concatenation is the input, none has
\* more than max_items items, one with several items has at most max_chars
\* characters, a chunk ends only where the next item would exceed a limit,
\* and 5 lines with max_items = 2 (characters not limiting) give sizes 2, 2, 1.
C9_ChunksPartitionGreedily ==
    kPc = "returned" =>
       /\ \A j \in 1..Len(kChunks) : kChunks[j] # <<>>
       /\ Flatten(kChunks) = kItems
       /\ \A j \in 1..Len(kChunks) : Len(kChunks[j]) <= kMaxItems
       /\ \A j \in 1..Len(kChunks) : Len(kChunks[j]) > 1 => Chars(kChunks[j]) <= kMaxChars
       /\ \A j \in 1..(Len(kChunks) - 1) :
             \/ Len(kChunks[j]) >= kMaxItems
             \/ Chars(kChunks[j]) + Len(kChunks[j + 1][1]) > kMaxChars
       /\ (Len(kItems) = 5 /\ kMaxItems = 2 /\ Chars(kItems) <= kMaxChars) =>
             [j \in 1..Len(kChunks) |-> Len(kChunks[j])] = <<2, 2, 1>>

C9_Witness ==
    /\ kPc = "returned"
    /\ Len(kItems) = 5 /\ kMaxItems = 2 /\ Chars(kItems) <= kMaxChars
    /\ Len(kChunks) = 3
    /\ Len(kChunks[1]) = 2 /\ Len(kChunks[2]) = 2 /\ Len(kChunks[3]) = 1

\* ------------------------------------------------------------------ CloudTranslateEngine

NonEmptyIndicesAll(chunk) == [i \in 1..Len(chunk) |-> i]

\* [i for i, s in enumerate(chunk) if (s or "").strip() != ""], 1-based here
NonEmptyIndices(chunk) ==
    SelectSeq([i \in 1..Len(chunk) |-> i], LAMBDA i : ~IsBlank(chunk[i]))

\* [chunk[i] for i in non_empty_indices]
FilteredContents(chunk, idxs) == [k \in 1..Len(idxs) |-> chunk[idxs[k]]]

RECURSIVE ZipWriteShifted(_, _, _)
ZipWriteShifted(rebuilt, idxs, translations) ==
    IF idxs = <<>> \/ translations = <<>> THEN rebuilt
    ELSE ZipWriteShifted([rebuilt EXCEPT ![Len(rebuilt) + 1 - Head(idxs)] = Head(translations)],
                         Tail(idxs), Tail(translations))

\* for idx, translated_text in zip(non_empty_indices, translations):
\*     rebuilt[idx] = translated_text
RECURSIVE ZipWrite(_, _, _)
ZipWrite(rebuilt, idxs, translations) ==
    IF idxs = <<>> \/ translations = <<>> THEN rebuilt
    ELSE ZipWrite([rebuilt EXCEPT ![Head(idxs)] = Head(translations)],
                  Tail(idxs), Tail(translations))

\* index in lines (0-based) of the first line of chunk number k
RECURSIVE ChunkStart(_, _)
ChunkStart(chunks, k) == IF k <= 1 THEN 0 ELSE ChunkStart(chunks, k - 1) + Len(chunks[k - 1])

CloudLineVals == {<<>>, <<SP>>, <<"a">>, <<"b", "c">>}

CloudTexts == {<<"T">>, <<"U">>}

\* what translate_text can do with a request of n contents: raise, or answer
\* any number of translations
CloudResponses(n) ==
    {Raised} \cup {ListOf(t) : t \in SeqsOf(CloudTexts, 0, n + 1)}

\* translate_lines(lines, target_language): the call, up to the for loop
CloudTranslateLines ==
    /\ cPc = "called"
    /\ IF lines = <<>>
       THEN /\ cPc' = "returned"
            /\ UNCHANGED <<cChunks, cIdx>>
       ELSE IF ~projectSet
       THEN /\ cPc' = "config_error"
            /\ UNCHANGED <<cChunks, cIdx>>
       ELSE /\ cPc' = "running"
            /\ cChunks' = ChunkByChars(lines, CloudMaxChars, CloudMaxItems)
            /\ cIdx' = 1
    /\ cOut' = <<>>
    /\ UNCHANGED <<lines, gVars, kVars, oVars, tVars, projectSet, cLog>>

\* one iteration of "for chunk in chunks" with its translate_text request, and
\* the return of out after the last one
CloudChunkIteration ==
    /\ cPc = "running"
    /\ cIdx <= Len(cChunks)
    /\ LET chunk == cChunks[cIdx]
           idxs == NonEmptyIndices(chunk)
           after == IF cIdx = Len(cChunks) THEN "returned" ELSE "running"
       IN IF idxs = <<>>
          THEN /\ cOut' = cOut \o chunk
               /\ cPc' = after
               /\ cIdx' = cIdx + 1
               /\ UNCHANGED cLog
          ELSE \E resp \in CloudResponses(Len(idxs)) :
                  LET entry == [chunk |-> cIdx, lo |-> ChunkStart(cChunks, cIdx),
                                idxs |-> idxs,
                                payload |-> FilteredContents(chunk, idxs),
                                ok |-> resp.kind = "list", resp |-> resp.list]
                  IN /\ cLog' = Append(cLog, entry)
                     /\ IF resp.kind = "raise"
                        THEN /\ cPc' = "backend_error"
                             /\ UNCHANGED <<cOut, cIdx>>
                        ELSE /\ cOut' = cOut \o ZipWrite(chunk, idxs, resp.list)
                             /\ cPc' = after
                             /\ cIdx' = cIdx + 1
    /\ UNCHANGED <<lines, gVars, kVars, oVars, tVars, projectSet, cChunks>>

InitCloud ==
    /\ lines \in SeqsOf(CloudLineVals, 0, MaxCloudLines)
    /\ projectSet \in BOOLEAN
    /\ cChunks = <<>> /\ cIdx = 0 /\ cOut = <<>> /\ cLog = <<>>
    /\ cPc = "called"
    /\ GeminiOff
    /\ ChunkOff
    /\ OrchOff
    /\ TtmlOff

NextCloud ==
    \/ CloudTranslateLines
    \/ CloudChunkIteration

SpecCloud == InitCloud /\ [][NextCloud]_vars

\* ------------------------------------------------------------------ CloudTranslateEngine: properties

CLogIdx == 1..Len(cLog)

\* the smaller of the number of contents sent and of translations answered
Zipped(e) == IF Len(e.idxs) <= Len(e.resp) THEN Len(e.idxs) ELSE Len(e.resp)

\* C5: no blank line is in a request payload, the payload is the non-blank
\* lines of the batch in their order, every blank line is returned unchanged
\* at its index, and each translation is written at the index of the
\* non-blank line it answers.
C5_CloudBlanksKeptAligned ==
    /\ \A k \in CLogIdx :
          LET e == cLog[k] IN
          /\ \A j \in 1..Len(e.payload) :
                /\ ~IsBlank(e.payload[j])
                /\ e.payload[j] = lines[e.lo + e.idxs[j]]
                /\ j > 1 => e.idxs[j - 1] < e.idxs[j]
          /\ \A i \in 1..Len(cChunks[e.chunk]) :
                ~IsBlank(lines[e.lo + i]) => \E j \in 1..Len(e.idxs) : e.idxs[j] = i
    /\ cPc = "returned" =>
          /\ Len(cOut) = Len(lines)
          /\ \A i \in 1..Len(lines) : IsBlank(lines[i]) => cOut[i] = lines[i]
          /\ \A k \in CLogIdx : \A j \in 1..Zipped(cLog[k]) :
                cOut[cLog[k].lo + cLog[k].idxs[j]] = cLog[k].resp[j]

C5_Witness ==
    /\ cPc = "returned"
    /\ lines = <<(<<"a">>), <<SP>>, <<"b", "c">>, <<>>>>
    /\ Len(cChunks) = 2
    /\ \E k \in CLogIdx : cLog[k].idxs = <<1, 3>> /\ cLog[k].resp = <<(<<"T">>), <<"U">>>>
    /\ cOut = <<(<<"T">>), <<SP>>, <<"U">>, <<>>>>

\* the batches, in order, that the loop has gone through and that hold a
\* non-blank line; the batch a raising request was for is the one at cIdx
RECURSIVE RequestedBatches(_)
RequestedBatches(k) ==
    IF k = 0 THEN <<>>
    ELSE RequestedBatches(k - 1)
         \o (IF \E i \in 1..Len(cChunks[k]) : ~IsBlank(cChunks[k][i]) THEN <<k>> ELSE <<>>)

\* the number of batches the loop has entered
Entered ==
    CASE cPc = "returned" -> Len(cChunks)
      [] cPc = "backend_error" -> cIdx
      [] cPc = "running" -> cIdx - 1
      [] OTHER -> 0

\* line i of batch k as the loop rebuilt it: the answer of the same rank as
\* the line has among the non-blank lines of the batch, when there is one
RebuiltLine(k, i) ==
    LET chunk == cChunks[k]
        rank == Cardinality({j \in 1..i : ~IsBlank(chunk[j])})
    IN IF IsBlank(chunk[i]) THEN chunk[i]
       ELSE LET e == CHOOSE e \in {cLog[m] : m \in CLogIdx} : e.chunk = k
            IN IF rank <= Len(e.resp) THEN e.resp[rank] ELSE chunk[i]

\* C19: the engine makes exactly one request for each batch holding a
\* non-blank line and none for an all-blank batch, in batch order, and its
\* output is the concatenation of the rebuilt batches in that order.
C19_OneRequestPerBatchInOrder ==
    /\ [k \in CLogIdx |-> cLog[k].chunk] = RequestedBatches(Entered)
    /\ \A k \in CLogIdx : cLog[k].lo = ChunkStart(cChunks, cLog[k].chunk)
    /\ cPc \in {"running", "returned"} =>
          /\ Len(cOut) = ChunkStart(cChunks, Entered + 1)
          /\ \A k \in 1..Entered : \A i \in 1..Len(cChunks[k]) :
                cOut[ChunkStart(cChunks, k) + i] = RebuiltLine(k, i)

C19_Witness ==
    /\ cPc = "returned"
    /\ lines = <<(<<>>), <<SP>>, <<>>, <<"a">>>>
    /\ Len(cChunks) = 2
    /\ \A i \in 1..Len(cChunks[1]) : IsBlank(cChunks[1][i])
    /\ [k \in CLogIdx |-> cLog[k].chunk] = <<2>>
    /\ cOut = <<(<<>>), <<SP>>, <<>>, <<"T">>>>

\* the number of non-blank lines among the first i lines of chunk
NonBlankUpTo(chunk, i) == Cardinality({j \in 1..i : ~IsBlank(chunk[j])})

\* C23: when no request raises, translate_lines returns N strings for N
\* lines whatever the number of translations answered: the k-th translation
\* is at the index of the k-th non-blank line of its batch, translations
\* beyond the non-blank lines are dropped, and a non-blank line without a
\* translation keeps its text.
C23_CloudLengthKeptUnderMiscount ==
    cPc = "returned" =>
       /\ Len(cOut) = Len(lines)
       /\ \A m \in CLogIdx :
             LET e == cLog[m]
                 chunk == cChunks[e.chunk]
             IN /\ e.ok
                /\ Len(e.idxs) = NonBlankUpTo(chunk, Len(chunk))
                /\ \A k \in 1..Len(e.idxs) :
                      /\ e.idxs[k] \in 1..Len(chunk)
                      /\ ~IsBlank(chunk[e.idxs[k]])
                      /\ NonBlankUpTo(chunk, e.idxs[k]) = k
                      /\ cOut[e.lo + e.idxs[k]] =
                            IF k <= Len(e.resp) THEN e.resp[k] ELSE lines[e.lo + e.idxs[k]]

C23_Witness ==
    /\ cPc = "returned"
    /\ lines = <<(<<"a">>), <<SP>>, <<"b", "c">>, <<"a">>>>
    /\ Len(cLog) = 2
    /\ cLog[1].idxs = <<1, 3>> /\ cLog[1].resp = <<(<<"U">>)>>
    /\ cLog[2].idxs = <<1>> /\ cLog[2].resp = <<(<<"T">>), <<"U">>>>
    /\ cOut = <<(<<"U">>), <<SP>>, <<"b", "c">>, <<"T">>>>

\* ------------------------------------------------------------------ both engines

\* translate_lines of each engine is called on the same list
InitEngines ==
    /\ lines \in SeqsOf(LineVals, 0, MaxBothLines)
    /\ gStack = <<>> /\ gOut = <<>> /\ gLog = <<>> /\ gLast = NoResponse /\ gPc = "called"
    /\ backend = "any" /\ markIdx = 0
    /\ projectSet \in BOOLEAN
    /\ cChunks = <<>> /\ cIdx = 0 /\ cOut = <<>> /\ cLog = <<>> /\ cPc = "called"
    /\ ChunkOff
    /\ OrchOff
    /\ TtmlOff

NextEngines ==
    \/ NextGemini
    \/ NextCloud

SpecEngines == InitEngines /\ [][NextEngines]_vars

\* C16: for an empty list, translate_lines of both engines returns an empty
\* list and makes no backend request.
C16_EmptyInputNoRequest ==
    lines = <<>> =>
       /\ gLog = <<>> /\ cLog = <<>>
       /\ gPc \in {"called", "returned"} /\ cPc \in {"called", "returned"}
       /\ gPc = "returned" => gOut = <<>>
       /\ cPc = "returned" => cOut = <<>>

C16_Witness ==
    /\ lines = <<>>
    /\ gPc = "returned" /\ gOut = <<>> /\ gLog = <<>>
    /\ cPc = "returned" /\ cOut = <<>> /\ cLog = <<>>
    /\ ~projectSet

\* ------------------------------------------------------------------ translate_ttml

\* A document is the sequence of its <p> elements in document order, as
\* root.findall(".//p") yields them.  A <p> has its own text and its direct
\* children; a child has a tag ("span", "br" or "metadata" for any other
\* element), a text and a tail.  ElementTree parses absent text as None.

TextVals == {None, <<SP>>, <<"a">>}

Kid(tag, text, tail) == [tag |-> tag, text |-> text, tail |-> tail]

KidKinds ==
    {Kid("span", t, None) : t \in TextVals}
    \cup {Kid("span", <<"a">>, <<SP>>)}
    \cup {Kid("br", None, t) : t \in TextVals}
    \cup {Kid("metadata", None, None)}

RECURSIVE SumSeq(_)
SumSeq(ns) == IF ns = <<>> THEN 0 ELSE Head(ns) + SumSeq(Tail(ns))

\* the numbers of children of np <p> elements having at most budget children in all
RECURSIVE ShapesOf(_, _)
ShapesOf(np, budget) ==
    IF np = 0 THEN {<<>>}
    ELSE UNION {{<<k>> \o r : r \in ShapesOf(np - 1, budget - k)} : k \in 0..budget}

\* the shapes of the documents of at most maxElems elements
DocShapes(maxElems) == UNION {ShapesOf(np, maxElems - np) : np \in 1..maxElems}

\* the element parsed from the child kind k with the attributes attrib
Element(k, attrib) == [tag |-> k.tag, text |-> k.text, tail |-> k.tail, attrib |-> attrib]

\* the document whose <p> number i has the text ts[i] and the next shape[i] of
\* the children ks; an element's attributes are its xml:id, the path to it
DocOf(shape, ts, ks) ==
    [i \in 1..Len(shape) |->
        [text |-> ts[i],
         attrib |-> <<i>>,
         kids |-> [j \in 1..shape[i] |->
                     Element(ks[SumSeq(SubSeq(shape, 1, i - 1)) + j], <<i, j>>)]]]

\* doc0 is one of the documents of the given shapes
ParsedFrom(shapes) ==
    \E shape \in shapes :
       \E ts \in [1..Len(shape) -> TextVals] :
          \E ks \in [1..SumSeq(shape) -> KidKinds] :
             doc0 = DocOf(shape, ts, ks)

\* a location (node, attr): kid = 0 is the <p> itself
Loc(p, kid, attr) == [p |-> p, kid |-> kid, attr |-> attr]

\* any(ch.tag == _q("span") for ch in list(p_elem))
HasSpans(pe) == \E k \in 1..Len(pe.kids) : pe.kids[k].tag = "span"

\* the body of "for idx, ch in enumerate(children)" from child idx on
RECURSIVE ChildLines(_, _, _)
ChildLines(pe, pi, idx) ==
    IF idx > Len(pe.kids) THEN <<>>
    ELSE LET ch == pe.kids[idx]
             nextIsSpan == idx + 1 <= Len(pe.kids) /\ pe.kids[idx + 1].tag = "span"
             here == IF ch.tag = "span" THEN <<Loc(pi, idx, "text")>>
                     ELSE IF ch.tag = "br" /\ ~IsBlank(ch.tail) /\ ~nextIsSpan
                          THEN <<Loc(pi, idx, "tail")>>
                          ELSE <<>>
         IN here \o ChildLines(pe, pi, idx + 1)

CollectLineNodesLeadAlways(pe, pi) ==
    (IF ~IsBlank(pe.text) THEN <<Loc(pi, 0, "text")>> ELSE <<>>)
    \o ChildLines(pe, pi, 1)

\* collect_line_nodes(p_elem), for the <p> number pi
CollectLineNodes(pe, pi) ==
    (IF ~HasSpans(pe) /\ ~IsBlank(pe.text) THEN <<Loc(pi, 0, "text")>> ELSE <<>>)
    \o ChildLines(pe, pi, 1)

\* for p in root.findall(".//p"): line_nodes.extend(collect_line_nodes(p))
RECURSIVE AllLineNodes(_, _)
AllLineNodes(d, pi) ==
    IF pi > Len(d) THEN <<>> ELSE CollectLineNodes(d[pi], pi) \o AllLineNodes(d, pi + 1)

GetAttrTextOnly(d, loc) ==
    IF loc.kid = 0 THEN d[loc.p].text ELSE d[loc.p].kids[loc.kid].text

\* getattr(node, attr, None)
GetAttr(d, loc) ==
    IF loc.kid = 0 THEN d[loc.p].text
    ELSE IF loc.attr = "text" THEN d[loc.p].kids[loc.kid].text
    ELSE d[loc.p].kids[loc.kid].tail

ExtractTextsFirstContainer(d, nodes) ==
    LET n == Cardinality({i \in 1..Len(nodes) : nodes[i].p = nodes[1].p})
    IN [i \in 1..n |-> OrEmpty(GetAttr(d, nodes[i]))]

\* texts.append(val or "")
ExtractTexts(d, nodes) == [i \in 1..Len(nodes) |-> OrEmpty(GetAttr(d, nodes[i]))]

SetAttrTextAlways(d, loc, txt) ==
    IF loc.kid = 0 THEN [d EXCEPT ![loc.p].text = txt]
    ELSE [d EXCEPT ![loc.p].kids[loc.kid].text = txt]

\* setattr(node, attr, txt)
SetAttr(d, loc, txt) ==
    IF loc.kid = 0 THEN [d EXCEPT ![loc.p].text = txt]
    ELSE IF loc.attr = "text" THEN [d EXCEPT ![loc.p].kids[loc.kid].text = txt]
    ELSE [d EXCEPT ![loc.p].kids[loc.kid].tail = txt]

RECURSIVE RewriteAllButLast(_, _, _)
RewriteAllButLast(d, nodes, trans) ==
    IF Len(nodes) <= 1 \/ trans = <<>> THEN d
    ELSE RewriteAllButLast(SetAttr(d, Head(nodes), Head(trans)), Tail(nodes), Tail(trans))

\* for (node, attr), txt in zip(line_nodes, translated): setattr(node, attr, txt)
RECURSIVE RewriteAll(_, _, _)
RewriteAll(d, nodes, trans) ==
    IF nodes = <<>> \/ trans = <<>> THEN d
    ELSE RewriteAll(SetAttr(d, Head(nodes), Head(trans)), Tail(nodes), Tail(trans))

LengthsDifferOrShort(trans, nodes) == Len(trans) <= Len(nodes)

\* len(translated) == len(line_nodes)
LengthsMatch(trans, nodes) == Len(trans) = Len(nodes)

Pending == [kind |-> "pending", list |-> <<>>]

\* the stub's answer number k (1-based)
StubText(k) == <<"t", Digit(k % 4)>>

\* what a stub translate_fn can do with texts: raise, return them unmodified,
\* return each with a suffix, or return a list of any length up to one more
StubResults(ts) ==
    {Raised, ListOf(ts), ListOf([i \in 1..Len(ts) |-> ts[i] \o <<"!">>])}
    \cup {ListOf([k \in 1..m |-> StubText(k)]) : m \in 0..(Len(ts) + 1)}

\* what translate_fn(texts, target_language) has come to
FnResult ==
    CASE tFn = "gemini" -> IF gPc = "returned" THEN ListOf(gOut) ELSE Pending
      [] tFn = "cloud" -> IF cPc = "returned" THEN ListOf(cOut)
                          ELSE IF cPc \in {"config_error", "backend_error"} THEN Raised
                          ELSE Pending
      [] OTHER -> translated

TtmlExtractReusingTree ==
    /\ tPc = "called"
    /\ doc' = IF doc = <<>> THEN doc0 ELSE doc
    /\ lineNodes' = AllLineNodes(doc', 1)
    /\ texts' = ExtractTexts(doc', lineNodes')
    /\ tCount' = 0
    /\ IF texts' = <<>>
       THEN /\ tPc' = "returned"
            /\ UNCHANGED <<lines, gPc, cPc, tCalls>>
       ELSE /\ tPc' = "translating"
            /\ tCalls' = Append(tCalls, texts')
            /\ lines' = IF tFn = "stub" THEN lines ELSE texts'
            /\ gPc' = IF tFn = "gemini" THEN "called" ELSE gPc
            /\ cPc' = IF tFn = "cloud" THEN "called" ELSE cPc
    /\ UNCHANGED <<gStack, gOut, gLog, gLast, backend, markIdx, kVars, oVars,
                   projectSet, cChunks, cIdx, cOut, cLog, doc0, translated, tFn>>

\* translate_ttml(input_path, translate_fn, target_language): the parse, the
\* collection of the locations and texts, up to the call of translate_fn
TtmlExtract ==
    /\ tPc = "called"
    /\ doc' = doc0
    /\ lineNodes' = AllLineNodes(doc0, 1)
    /\ texts' = ExtractTexts(doc0, lineNodes')
    /\ tCount' = 0
    /\ IF texts' = <<>>
       THEN /\ tPc' = "returned"
            /\ UNCHANGED <<lines, gPc, cPc, tCalls>>
       ELSE /\ tPc' = "translating"
            /\ tCalls' = Append(tCalls, texts')
            /\ lines' = IF tFn = "stub" THEN lines ELSE texts'
            /\ gPc' = IF tFn = "gemini" THEN "called" ELSE gPc
            /\ cPc' = IF tFn = "cloud" THEN "called" ELSE cPc
    /\ UNCHANGED <<gStack, gOut, gLog, gLast, backend, markIdx, kVars, oVars,
                   projectSet, cChunks, cIdx, cOut, cLog, doc0, translated, tFn>>

\* a stub translate_fn answers
StubTranslateFn ==
    /\ tPc = "translating"
    /\ tFn = "stub"
    /\ translated = Pending
    /\ translated' \in StubResults(texts)
    /\ UNCHANGED <<lines, gVars, cVars, kVars, oVars, doc0, doc, lineNodes, texts, tCount, tCalls,
                   tFn, tPc>>

\* translate_ttml from the return of translate_fn on: the length test, the
\* rewrite and the return of (tree, total_lines); an exception of
\* translate_fn goes on to the caller
TtmlRewrite ==
    /\ tPc = "translating"
    /\ FnResult # Pending
    /\ IF FnResult.kind = "raise"
       THEN /\ tPc' = "raised"
            /\ UNCHANGED <<doc, tCount>>
       ELSE /\ tPc' = "returned"
            /\ IF LengthsMatch(FnResult.list, lineNodes)
               THEN /\ doc' = RewriteAll(doc, lineNodes, FnResult.list)
                    /\ tCount' = Len(lineNodes)
               ELSE UNCHANGED <<doc, tCount>>
    /\ UNCHANGED <<lines, gVars, cVars, kVars, oVars, doc0, lineNodes, texts, translated, tCalls, tFn>>

\* three containers having two, no and one child
ThreeContainers == <<2, 0, 1>>

InitTtml ==
    /\ ParsedFrom(DocShapes(MaxElems) \cup {ThreeContainers})
    /\ doc = <<>> /\ lineNodes = <<>> /\ texts = <<>>
    /\ translated = Pending
    /\ tCount = 0
    /\ tCalls = <<>>
    /\ tFn = "stub"
    /\ tPc = "called"
    /\ lines = <<>>
    /\ GeminiOff
    /\ CloudOff
    /\ ChunkOff
    /\ OrchOff

NextTtml ==
    \/ TtmlExtract
    \/ StubTranslateFn
    \/ TtmlRewrite

SpecTtml == InitTtml /\ [][NextTtml]_vars

\* ------------------------------------------------------------------ translate_ttml: properties

LocIdx == 1..Len(lineNodes)

\* the stub answered a list of another length than the locations
Mismatch == translated.kind = "list" /\ Len(translated.list) # Len(lineNodes)

\* C3: when translate_fn returns a list of another length than the locations,
\* no text or tail is modified and the returned line count is 0.
C3_MismatchLeavesDocument ==
    (tPc = "returned" /\ Mismatch) => doc = doc0 /\ tCount = 0

C3_Witness ==
    /\ tPc = "returned" /\ Mismatch
    /\ Len(lineNodes) = 2
    /\ Len(translated.list) = 1
    /\ doc = doc0 /\ tCount = 0

\* the stub returned the extracted strings unmodified
Unmodified == translated = ListOf(texts)

\* C10 as claimed: with a translate_fn returning the extracted strings
\* unmodified, every text and tail keeps its original value.
C10_RoundTripIdentity ==
    (tPc = "returned" /\ Unmodified) => doc = doc0

\* what the serialiser writes for a text or tail: nothing for None and for ""
Written(x) == OrEmpty(x)

\* d differs from d0 at most in that a <span> text that was None is ""
SameUpToAbsentSpanText(d, d0) ==
    /\ Len(d) = Len(d0)
    /\ \A pi \in 1..Len(d0) :
          /\ d[pi].text = d0[pi].text
          /\ Len(d[pi].kids) = Len(d0[pi].kids)
          /\ \A k \in 1..Len(d0[pi].kids) :
                LET ch == d[pi].kids[k]
                    ch0 == d0[pi].kids[k]
                IN /\ ch.tag = ch0.tag
                   /\ ch.tail = ch0.tail
                   /\ \/ ch.text = ch0.text
                      \/ ch0.tag = "span" /\ ch0.text = None /\ ch.text = <<>>
                   /\ Written(ch.text) = Written(ch0.text)

\* C10 (amended): with a translate_fn returning the extracted strings
\* unmodified, every tail and every text keeps its original value, except
\* that a <span> whose text is absent (None) gets the empty string, which is
\* written like None: the serialised document is the original one.
C10_RoundTripUpToAbsentText ==
    (tPc = "returned" /\ Unmodified) => SameUpToAbsentSpanText(doc, doc0)

C10_Witness ==
    /\ tPc = "returned" /\ Unmodified
    /\ tCount = 3
    /\ \E i \in LocIdx : lineNodes[i].attr = "tail" /\ GetAttr(doc0, lineNodes[i]) = <<"a">>
    /\ \E i \in LocIdx : /\ lineNodes[i].attr = "text"
                         /\ GetAttr(doc0, lineNodes[i]) = None
                         /\ GetAttr(doc, lineNodes[i]) = <<>>
    /\ \E i \in LocIdx : lineNodes[i].attr = "text" /\ GetAttr(doc0, lineNodes[i]) = <<"a">>

\* the child number k of the <p> number pi of the parsed document is a <span>
IsSpanAt(pi, k) == k \in 1..Len(doc0[pi].kids) /\ doc0[pi].kids[k].tag = "span"

\* what the location rules make of the field attr of the node (pi, k)
IsLineLocation(pi, k, attr) ==
    IF k = 0
    THEN /\ attr = "text"
         /\ ~IsBlank(doc0[pi].text)
         /\ \A j \in 1..Len(doc0[pi].kids) : ~IsSpanAt(pi, j)
    ELSE LET ch == doc0[pi].kids[k] IN
         \/ attr = "text" /\ ch.tag = "span"
         \/ attr = "tail" /\ ch.tag = "br" /\ ~IsBlank(ch.tail) /\ ~IsSpanAt(pi, k + 1)

\* location a comes before location b in document order: containers in
\* order, the container's own text first, then the children in child order
DocBefore(a, b) == a.p < b.p \/ (a.p = b.p /\ a.kid < b.kid)

SameLength == translated.kind = "list" /\ Len(translated.list) = Len(lineNodes)

\* the container number pi has no location
NoLocationIn(pi) == \A i \in LocIdx : lineNodes[i].p # pi

\* the stub returned each extracted string with the suffix
Suffixed == translated = ListOf([i \in 1..Len(texts) |-> texts[i] \o <<"!">>])

\* C12: when translate_fn returns a list of the same length as the
\* locations, location i holds element i of it, every container without a
\* location is as parsed, and the returned count is the number of locations.
C12_SameLengthRewritesAll ==
    (tPc = "returned" /\ SameLength) =>
       /\ \A i \in LocIdx : GetAttr(doc, lineNodes[i]) = translated.list[i]
       /\ \A pi \in 1..Len(doc0) : NoLocationIn(pi) => doc[pi] = doc0[pi]
       /\ tCount = Len(lineNodes)

C12_Witness ==
    /\ tPc = "returned" /\ Suffixed
    /\ Len(doc0) = 3
    /\ Len(doc0[1].kids) = 2 /\ Len(doc0[2].kids) = 0 /\ Len(doc0[3].kids) = 1
    /\ lineNodes = <<Loc(1, 1, "text"), Loc(1, 2, "text"), Loc(3, 1, "text")>>
    /\ \A i \in LocIdx : /\ GetAttr(doc0, lineNodes[i]) = <<"a">>
                         /\ GetAttr(doc, lineNodes[i]) = <<"a", "!">>
    /\ doc[2] = doc0[2]
    /\ tCount = 3

\* the field attr of the node (pi, k) is one of the extracted locations
Extracted(pi, k, attr) == \E i \in LocIdx : lineNodes[i] = Loc(pi, k, attr)

\* C13: translate_ttml changes nothing but the text or tail at the extracted
\* locations: the containers, their children and the child order, every tag
\* and every attribute are as parsed, and so are the text and the tail of
\* every field that is not a location.
C13_OnlyLocationsChange ==
    tPc # "called" =>
       /\ Len(doc) = Len(doc0)
       /\ \A pi \in 1..Len(doc0) :
             /\ doc[pi].attrib = doc0[pi].attrib
             /\ Len(doc[pi].kids) = Len(doc0[pi].kids)
             /\ ~Extracted(pi, 0, "text") => doc[pi].text = doc0[pi].text
             /\ \A k \in 1..Len(doc0[pi].kids) :
                   /\ doc[pi].kids[k].tag = doc0[pi].kids[k].tag
                   /\ doc[pi].kids[k].attrib = doc0[pi].kids[k].attrib
                   /\ ~Extracted(pi, k, "text") => doc[pi].kids[k].text = doc0[pi].kids[k].text
                   /\ ~Extracted(pi, k, "tail") => doc[pi].kids[k].tail = doc0[pi].kids[k].tail

C13_Witness ==
    /\ tPc = "returned" /\ Suffixed
    /\ Len(doc0) = 1 /\ Len(doc0[1].kids) = 3
    /\ doc0[1].text = <<"a">> /\ doc[1].text = <<"a">>
    /\ doc0[1].kids[1].tag = "br" /\ doc0[1].kids[1].tail = <<"a">>
    /\ doc[1].kids[1].tail = <<"a">>
    /\ doc0[1].kids[2].tag = "span" /\ doc0[1].kids[2].tail = <<SP>>
    /\ doc[1].kids[2].text = <<"a", "!">> /\ doc[1].kids[2].tail = <<SP>>
    /\ doc0[1].kids[3].tag = "br" /\ doc[1].kids[3].tail = <<"a", "!">>
    /\ doc[1].kids[3].text = None

\* the container number pi has locations and all its extracted texts are blank
AllBlankContainer(pi) ==
    /\ ~NoLocationIn(pi)
    /\ \A i \in LocIdx : lineNodes[i].p = pi => IsBlank(texts[i])

\* the number of locations of the containers that are not all-blank
RECURSIVE CountedFrom(_)
CountedFrom(i) ==
    IF i > Len(lineNodes) THEN 0
    ELSE (IF AllBlankContainer(lineNodes[i].p) THEN 0 ELSE 1) + CountedFrom(i + 1)

\* C14 as claimed: a container whose extracted texts are all blank is
\* skipped: none of its lines is passed to translate_fn and none is counted.
C14_AllBlankContainerSkipped ==
    /\ tPc # "called" => \A i \in LocIdx : ~AllBlankContainer(lineNodes[i].p)
    /\ (tPc = "returned" /\ SameLength) => tCount = CountedFrom(1)

\* C20: one run of translate_ttml calls translate_fn at most once: once, with
\* the strings of all the locations of the document in location order, when
\* there is a location, and never when there is none, and then the document
\* is as parsed and the count is 0.
C20_OneCallWithAllLines ==
    /\ Len(tCalls) <= 1
    /\ tPc = "called" => tCalls = <<>>
    /\ (tPc # "called" /\ lineNodes # <<>>) =>
          /\ Len(tCalls) = 1
          /\ Len(tCalls[1]) = Len(lineNodes)
          /\ \A i \in LocIdx : tCalls[1][i] = OrEmpty(GetAttr(doc0, lineNodes[i]))
    /\ (tPc # "called" /\ lineNodes = <<>>) =>
          tCalls = <<>> /\ tPc = "returned" /\ doc = doc0 /\ tCount = 0

C20_Witness ==
    /\ tPc = "returned" /\ Suffixed
    /\ Len(doc0) = 3
    /\ lineNodes = <<Loc(1, 1, "text"), Loc(1, 2, "tail"), Loc(3, 0, "text")>>
    /\ doc0[1].kids[1].text = None
    /\ tCalls = <<(<<(<<>>), <<"a">>, <<"a">>>>)>>

\* ------------------------------------------------------------------ translate_ttml with an engine

InitPipe ==
    /\ ParsedFrom({<<k>> : k \in 0..MaxPipeKids})
    /\ doc = <<>> /\ lineNodes = <<>> /\ texts = <<>>
    /\ translated = Pending
    /\ tCount = 0
    /\ tCalls = <<>>
    /\ tFn \in {"gemini", "cloud"}
    /\ tPc = "called"
    /\ lines = <<>>
    /\ GeminiOff
    /\ projectSet \in BOOLEAN
    /\ cChunks = <<>> /\ cIdx = 0 /\ cOut = <<>> /\ cLog = <<>> /\ cPc = "off"
    /\ ChunkOff
    /\ OrchOff

NextPipe ==
    \/ TtmlExtract
    \/ GeminiTranslateLines
    \/ GeminiBatchRequest
    \/ GeminiFallbackRequest
    \/ CloudTranslateLines
    \/ CloudChunkIteration
    \/ TtmlRewrite

SpecPipe == InitPipe /\ [][NextPipe]_vars

\* C4: no backend failure escapes: with either engine, a backend call that
\* raises or answers the wrong type or length is absorbed by translate_lines,
\* so translate_ttml never raises because of a backend failure (it raises
\* only for the missing project identifier).
C4_NoBackendFailureEscapes ==
    /\ cPc # "backend_error"
    /\ tPc = "raised" => (tFn = "cloud" /\ cPc = "config_error")

\* ------------------------------------------------------------------ main.py and batch_translate.py

\* the (path, language) pair the loops are at: file is the position in oFiles
Pair(file, lang) == [file |-> file, lang |-> lang]

\* the position of the first regular file among the paths from position f on,
\* or past the end: "if not path.is_file(): continue"
RECURSIVE NextFile(_)
NextFile(f) == IF f > Len(oFiles) \/ oFiles[f] THEN f ELSE NextFile(f + 1)

\* the pair the loops go to after the pair at: the next language of the same
\* file, or the first language of the next regular file
NextPair(at) ==
    IF at.lang < oLangs THEN Pair(at.file, at.lang + 1) ELSE Pair(NextFile(at.file + 1), 1)

\* how far one pass of the body of the language loop gets
PairOutcomes == {"ok", "translate_raises", "write_raises", "upload_raises"}

\* the calls one pass makes for the pair at, in their order
PairEvents(at, outcome) ==
    <<[op |-> "translate_ttml", file |-> at.file, lang |-> at.lang,
       ok |-> outcome # "translate_raises"]>>
    \o (IF outcome = "translate_raises" THEN <<>>
        ELSE <<[op |-> "write_ttml", file |-> at.file, lang |-> at.lang,
                ok |-> outcome # "write_raises"]>>)
    \o (IF outcome \in {"translate_raises", "write_raises"} THEN <<>>
        ELSE <<[op |-> "upload_file", file |-> at.file, lang |-> at.lang,
                ok |-> outcome = "ok"]>>)

\* main(): from load_dotenv() to the choice of the engine
OrchStartup ==
    /\ oPc = "start"
    /\ oPc' = IF ~oProject \/ ~oInput \/ oLangs = 0 THEN "exit" ELSE "engine"
    /\ UNCHANGED <<oKind, oProject, oBucket, oInput, oFiles, oLangs, oAt, oEvents, oTrees>>
    /\ UNCHANGED <<lines, gVars, cVars, kVars, tVars>>

\* the construction of the engine and of the local output directory
OrchEngine ==
    /\ oPc = "engine"
    /\ \E ok \in BOOLEAN : oPc' = IF ok THEN "bucket" ELSE "crashed"
    /\ UNCHANGED <<oKind, oProject, oBucket, oInput, oFiles, oLangs, oAt, oEvents, oTrees>>
    /\ UNCHANGED <<lines, gVars, cVars, kVars, tVars>>

OrchBucketUntested ==
    /\ oPc = "bucket"
    /\ \E ok \in BOOLEAN :
          IF ~ok THEN oPc' = "crashed" /\ UNCHANGED oAt
          ELSE /\ oAt' = Pair(NextFile(1), 1)
               /\ oPc' = IF oAt'.file > Len(oFiles) THEN "done" ELSE "loop"
    /\ UNCHANGED <<oKind, oProject, oBucket, oInput, oFiles, oLangs, oEvents, oTrees>>
    /\ UNCHANGED <<lines, gVars, cVars, kVars, tVars>>

\* the test of BUCKET_NAME, ensure_bucket, and the entry into the loops
OrchBucket ==
    /\ oPc = "bucket"
    /\ IF ~oBucket THEN oPc' = "exit" /\ UNCHANGED oAt
       ELSE \E ok \in BOOLEAN :
               IF ~ok THEN oPc' = "crashed" /\ UNCHANGED oAt
               ELSE /\ oAt' = Pair(NextFile(1), 1)
                    /\ oPc' = IF oAt'.file > Len(oFiles) THEN "done" ELSE "loop"
    /\ UNCHANGED <<oKind, oProject, oBucket, oInput, oFiles, oLangs, oEvents, oTrees>>
    /\ UNCHANGED <<lines, gVars, cVars, kVars, tVars>>

OrchPairUncaught ==
    /\ oPc = "loop"
    /\ \E outcome \in PairOutcomes :
          /\ oEvents' = oEvents \o PairEvents(oAt, outcome)
          /\ IF outcome # "ok"
             THEN oPc' = "crashed" /\ UNCHANGED oAt
             ELSE /\ oAt' = NextPair(oAt)
                  /\ oPc' = IF oAt'.file > Len(oFiles) THEN "done" ELSE "loop"
    /\ UNCHANGED <<oKind, oProject, oBucket, oInput, oFiles, oLangs, oTrees>>
    /\ UNCHANGED <<lines, gVars, cVars, kVars, tVars>>

\* one pass of the body of "for lang in langs": translate_ttml, write_ttml and
\* upload_file for one pair; batch_translate catches an exception of the pass
\* and goes on, main does not
OrchPair ==
    /\ oPc = "loop"
    /\ \E outcome \in PairOutcomes :
          /\ oEvents' = oEvents \o PairEvents(oAt, outcome)
          /\ IF outcome # "ok" /\ oKind = "main"
             THEN oPc' = "crashed" /\ UNCHANGED oAt
             ELSE /\ oAt' = NextPair(oAt)
                  /\ oPc' = IF oAt'.file > Len(oFiles) THEN "done" ELSE "loop"
    /\ UNCHANGED <<oKind, oProject, oBucket, oInput, oFiles, oLangs, oTrees>>
    /\ UNCHANGED <<lines, gVars, cVars, kVars, tVars>>

\* a run of main.py on one file, or of batch_translate.py on the paths of a folder
InitOrch ==
    /\ oKind \in {"main", "batch"}
    /\ oProject \in BOOLEAN
    /\ oBucket \in BOOLEAN
    /\ oInput \in BOOLEAN
    /\ oFiles \in IF oKind = "main" THEN {<<TRUE>>} ELSE SeqsOf(BOOLEAN, 0, MaxFiles)
    /\ oLangs \in 0..MaxLangs
    /\ oAt = Pair(0, 0)
    /\ oEvents = <<>>
    /\ oTrees = <<>>
    /\ oPc = "start"
    /\ lines = <<>>
    /\ GeminiOff
    /\ CloudOff
    /\ ChunkOff
    /\ TtmlOff

NextOrch ==
    \/ OrchStartup
    \/ OrchEngine
    \/ OrchBucket
    \/ OrchPair

SpecOrch == InitOrch /\ [][NextOrch]_vars

\* the run is over: by SystemExit, by an uncaught exception, or normally
OrchEnded == oPc \in {"exit", "crashed", "done"}

\* C15: in both orchestrators a run with no PROJECT_ID or no BUCKET_NAME
\* never reaches the loops: it makes no translate_ttml, write_ttml or
\* upload_file call, never ends normally, and goes on until it has ended.
C15_MissingIdentifierIsFatal ==
    (~oProject \/ ~oBucket) =>
       /\ oEvents = <<>>
       /\ oPc \notin {"loop", "done"}
       /\ ~oProject => oPc \in {"start", "exit"}
       /\ OrchEnded \/ ENABLED NextOrch

C15_Witness ==
    /\ oKind = "batch"
    /\ oProject /\ ~oBucket
    /\ oInput /\ oLangs = 2 /\ oFiles = <<TRUE, TRUE>>
    /\ oPc = "exit"
    /\ oEvents = <<>>

OEventIdx == 1..Len(oEvents)

\* the calls of op made for the pair (f, l), as positions in the history
CallsOf(op, f, l) ==
    {k \in OEventIdx : oEvents[k].op = op /\ oEvents[k].file = f /\ oEvents[k].lang = l}

\* a call made for the pair (f, l) raised
PairFailed(f, l) ==
    \E k \in OEventIdx : oEvents[k].file = f /\ oEvents[k].lang = l /\ ~oEvents[k].ok

\* the batch run goes on after a failed pair, up to the end of the loops,
\* where every regular file has had one translate_ttml call per language
BatchRunGoesOn ==
    /\ oEvents # <<>> => oPc \in {"loop", "done"}
    /\ oPc = "done" =>
          \A f \in 1..Len(oFiles) : \A l \in 1..oLangs :
             Cardinality(CallsOf("translate_ttml", f, l)) = (IF oFiles[f] THEN 1 ELSE 0)

\* write_ttml is called for a pair only right after translate_ttml returned
\* for it, and upload_file only right after write_ttml returned for it
OutputAfterTranslation ==
    \A k \in OEventIdx :
       LET e == oEvents[k] IN
       e.op \in {"write_ttml", "upload_file"} =>
          /\ k > 1
          /\ oEvents[k - 1].op = (IF e.op = "write_ttml" THEN "translate_ttml" ELSE "write_ttml")
          /\ oEvents[k - 1].file = e.file /\ oEvents[k - 1].lang = e.lang
          /\ oEvents[k - 1].ok

\* C22 as claimed: in batch_translate a failed pair does not stop the run,
\* no output is written or uploaded for a failed pair, and output is written
\* and uploaded only after translate_ttml returned.
C22_FailedPairLeavesNoOutput ==
    oKind = "batch" =>
       /\ BatchRunGoesOn
       /\ OutputAfterTranslation
       /\ \A f \in 1..Len(oFiles) : \A l \in 1..oLangs :
             PairFailed(f, l) =>
                \A k \in CallsOf("write_ttml", f, l) \cup CallsOf("upload_file", f, l) :
                   ~oEvents[k].ok

\* C22 (amended): in batch_translate a failed pair does not stop the run and
\* output is written and uploaded only after translate_ttml returned; for a
\* pair whose translate_ttml raised nothing is written or uploaded, for a
\* pair whose write_ttml raised nothing is uploaded, and for a pair whose
\* upload_file raised the local file was written and no upload succeeded.
C22_FailedPairIsolated ==
    oKind = "batch" =>
       /\ BatchRunGoesOn
       /\ OutputAfterTranslation
       /\ \A k \in OEventIdx :
             LET e == oEvents[k] IN
             ~e.ok =>
                /\ \A j \in OEventIdx :
                      (oEvents[j].file = e.file /\ oEvents[j].lang = e.lang /\ j # k)
                         => j < k /\ oEvents[j].ok
                /\ e.op = "translate_ttml" => CallsOf("write_ttml", e.file, e.lang) = {}
                /\ e.op # "upload_file" => CallsOf("upload_file", e.file, e.lang) = {}
                /\ e.op = "upload_file" => CallsOf("write_ttml", e.file, e.lang) # {}

C22_Witness ==
    /\ oKind = "batch"
    /\ oPc = "done"
    /\ oFiles = <<TRUE, TRUE>> /\ oLangs = 2
    /\ \E k \in CallsOf("translate_ttml", 1, 1) : ~oEvents[k].ok
    /\ \E k \in CallsOf("upload_file", 1, 2) : ~oEvents[k].ok
    /\ \E k \in CallsOf("write_ttml", 2, 1) : ~oEvents[k].ok
    /\ \E k \in CallsOf("upload_file", 2, 2) : oEvents[k].ok

\* ------------------------------------------------------------------ the language loop with translate_ttml

\* no output file of that name has been written
NoFile == [tree |-> <<>>, answer |-> Pending]

\* the body of "for lang in langs" up to the call of translate_ttml(input_path, ...)
OrchCallTtml ==
    /\ oPc = "lang"
    /\ oPc' = "ttml"
    /\ tPc' = "called"
    /\ translated' = Pending
    /\ UNCHANGED <<oKind, oProject, oBucket, oInput, oFiles, oLangs, oAt, oEvents, oTrees>>
    /\ UNCHANGED <<lines, gVars, cVars, kVars, doc0, doc, lineNodes, texts, tCount, tCalls, tFn>>

\* the body of "for lang in langs" from the return of translate_ttml on:
\* write_ttml(tree, out_path) under the name of the language and the step to
\* the next language; batch_translate catches an exception of translate_ttml
\* and goes on, main does not
OrchAfterTtml ==
    /\ oPc = "ttml"
    /\ tPc \in {"returned", "raised"}
    /\ oTrees' = IF tPc = "returned"
                 THEN [oTrees EXCEPT ![oAt.lang] = [tree |-> doc, answer |-> FnResult]]
                 ELSE oTrees
    /\ IF tPc = "raised" /\ oKind = "main"
       THEN oPc' = "crashed" /\ UNCHANGED oAt
       ELSE /\ oAt' = Pair(oAt.file, oAt.lang + 1)
            /\ oPc' = IF oAt.lang < oLangs THEN "lang" ELSE "done"
    /\ UNCHANGED <<oKind, oProject, oBucket, oInput, oFiles, oLangs, oEvents>>
    /\ UNCHANGED <<lines, gVars, cVars, kVars, tVars>>

\* the language loop of a run on one file, from its first language on
InitLangs ==
    /\ ParsedFrom({<<k>> : k \in 0..MaxLangKids})
    /\ doc = <<>> /\ lineNodes = <<>> /\ texts = <<>>
    /\ translated = Pending
    /\ tCount = 0
    /\ tCalls = <<>>
    /\ tFn = "stub"
    /\ tPc = "off"
    /\ oKind \in {"main", "batch"}
    /\ oProject = TRUE /\ oBucket = TRUE /\ oInput = TRUE
    /\ oFiles = <<TRUE>>
    /\ oLangs \in 1..MaxLangs
    /\ oAt = Pair(1, 1)
    /\ oEvents = <<>>
    /\ oTrees = [l \in 1..oLangs |-> NoFile]
    /\ oPc = "lang"
    /\ lines = <<>>
    /\ GeminiOff
    /\ CloudOff
    /\ ChunkOff

NextLangs ==
    \/ OrchCallTtml
    \/ TtmlExtract
    \/ StubTranslateFn
    \/ TtmlRewrite
    \/ OrchAfterTtml

SpecLangs == InitLangs /\ [][NextLangs]_vars

\* the locations and the source lines of the input file
SourceLocs == AllLineNodes(doc0, 1)
SourceLines == [i \in 1..Len(SourceLocs) |-> OrEmpty(GetAttr(doc0, SourceLocs[i]))]

\* tree is the input file with the strings of answer at the locations locs,
\* when there is one string per location, and the input file as parsed
\* otherwise
TreeOfOneRun(tree, answer, locs) ==
    /\ Len(tree) = Len(doc0)
    /\ \A pi \in 1..Len(doc0) :
          /\ Len(tree[pi].kids) = Len(doc0[pi].kids)
          /\ \A k \in 0..Len(doc0[pi].kids) : \A attr \in (IF k = 0 THEN {"text"} ELSE {"text", "tail"}) :
                LET at == {i \in 1..Len(locs) : locs[i] = Loc(pi, k, attr)} IN
                GetAttr(tree, Loc(pi, k, attr)) =
                   IF Len(answer) = Len(locs) /\ at # {}
                   THEN answer[CHOOSE i \in at : TRUE]
                   ELSE GetAttr(doc0, Loc(pi, k, attr))

\* every call of translate_fn so far got the source lines, and every tree
\* written so far is the tree of its own run
RunsFromSource(locs, srcLines) ==
    /\ \A k \in 1..Len(tCalls) : tCalls[k] = srcLines
    /\ \A l \in DOMAIN oTrees :
          oTrees[l] # NoFile => TreeOfOneRun(oTrees[l].tree, oTrees[l].answer.list, locs)

\* C21: every run of the language loop starts from the input file: the lines
\* passed to translate_fn for each language are the source lines of the file,
\* the tree written for a language holds the strings answered for that
\* language and otherwise the file's, and a later run leaves it as written.
C21_EachLanguageFromSource ==
    /\ [](RunsFromSource(SourceLocs, SourceLines))
    /\ [][\A l \in DOMAIN oTrees : oTrees[l] # NoFile => oTrees'[l] = oTrees[l]]_vars

C21_Witness ==
    /\ oPc = "done"
    /\ oLangs = 2
    /\ Len(tCalls) = 2 /\ tCalls[1] = <<(<<"a">>)>> /\ tCalls[2] = <<(<<"a">>)>>
    /\ oTrees[1].answer = ListOf(<<(<<"a", "!">>)>>)
    /\ oTrees[2].answer = ListOf(<<StubText(1)>>)
    /\ GetAttr(oTrees[1].tree, SourceLocs[1]) = <<"a", "!">>
    /\ GetAttr(oTrees[2].tree, SourceLocs[1]) = StubText(1)

====
